---- MODULE Spec2Model ----
(***************************************************************************)
(* Model of the lottery server (src/server.js) and its audit chain         *)
(* (src/blockchain.js).                                                     *)
(*                                                                          *)
(* Strings are atoms; what the code hashes or serialises is a sequence of   *)
(* words, one word per string or number (Code gives the word of a string).  *)
(* A SHA-256 digest is the sequence of the words that were hashed, between  *)
(* two marks, in its hex and in its raw form: different inputs have         *)
(* different digests.  The number read from a digest is computed from its   *)
(* length and some of its words; only its remainders are used.  Arrays and  *)
(* objects that the handlers share between the winners store and the block  *)
(* payloads live in a heap (arrs, objs) and are named by reference.         *)
(*                                                                          *)
(* Spec serves whole requests one after the other with a writable data     *)
(* file.  SelSpec runs selectWinners alone, statement by statement, and     *)
(* WideSpec does so on a list of some hundred candidates.                   *)
(* ConcSpec lets the bodies of drawTier requests arrive interleaved.        *)
(* FaultSpec lets writeFileSync fail.  RestartSpec lets the process stop    *)
(* and start again from the data file.  RedrawSpec follows one session      *)
(* through several draws on a longer chain.                                 *)
(***************************************************************************)
EXTENDS Integers, Sequences, FiniteSets, TLC

\* ------------------------------------------------------------------ bounds
MaxTime == 2
MaxChain == 6
\* the stand-alone calls of selectWinners: materials, largest k, calls per run
MaxMaterial == 4
MaxK == 4
MaxRuns == 2
\* the requests whose bodies arrive piecewise: how many, in how many chunks
MaxRequests == 2
MaxChunks == 1
\* how often the process is started again
MaxRestarts == 1
\* the longest list of candidates of a stand-alone selectWinners call
WideLen == 257
\* the longest chain of the draws that follow one another on one session
MaxRedrawChain == 7

\* ------------------------------------------------------------------ inputs
Users == {"a", "b"}
Seeds == {"s1", "s2"}
DrawTiers == {"special", "first", "bonus"}
Counts == {-1, 0, 2}
Batches == {<<"b", " a", " ", "c", "c">>}
DrawInputs ==
  { [numWinners |-> 0, tierCounts |-> <<>>],
    [numWinners |-> 2, tierCounts |-> <<>>],
    [numWinners |-> 0, tierCounts |-> << <<"first", 1>>, <<"second", 0>>, <<"third", 1>> >>] }
SessionName == "n"
\* the arguments of a stand-alone selectWinners call
SelCandidates == {<<>>, <<"a">>, <<"a", "b">>, <<"a", "b", "c">>, <<"b", "a", "c">>}
SelCounts == -1..MaxK
\* the drawTier requests whose bodies arrive piecewise
ConcRequests ==
  { [sessionId |-> 1, tier |-> "special", count |-> 2],
    [sessionId |-> 1, tier |-> "special", count |-> -1],
    [sessionId |-> 1, tier |-> "bonus", count |-> 2] }
Null == "null"
Undefined == "undefined"

\* ------------------------------------------------------------------ strings
\* The word that stands for a string where the code hashes or serialises it.
Code(s) ==
  CASE s = "a" -> 101
    [] s = "b" -> 102
    [] s = "c" -> 103
    [] s = "n" -> 110
    [] s = "s1" -> 121
    [] s = "s2" -> 122
    [] s = "special" -> 131
    [] s = "first" -> 132
    [] s = "second" -> 133
    [] s = "third" -> 134
    [] s = "default" -> 135
    [] s = "bonus" -> 136
    [] s = "undefined" -> 140
    [] s = "null" -> 141
    [] s = "Genesis Block" -> 150
    [] s = "SESSION_CREATED" -> 151
    [] s = "USER_ENTERED" -> 152
    [] s = "SEED_REVEALED" -> 153
    [] s = "DRAWN" -> 154
    [] s = "TIER_DRAWN" -> 155
    [] s = "USERS_IMPORTED" -> 156

\* String.prototype.trim on the strings the model uses.
Trim(s) ==
  CASE s = " a" -> "a"
    [] s = " " -> ""
    [] OTHER -> s

\* ------------------------------------------------------------------ digest
HashMod == 32749
HashMul == 257

\* a number out of the length of a sequence of words and of some of its
\* words: the last ones, where the inputs of the draws differ, and some
\* further up
Fold(words) ==
  LET n == Len(words)
      w(i) == words[((n - 1 - i) % n) + 1] + 3
  IN (n * 31 + w(1) * HashMul + w(2) * 263 + w(3) * 269 + w(4) * 271
      + w(5) * 277 + w(n \div 2) * 281 + w(n \div 3) * 283) % HashMod

\* the two words that open and close a digest
DigestOpen == -1
DigestClose == -2

\* crypto.createHash('sha256').update(x).digest(), in hex and raw: the words
\* that were hashed between the two digest marks, so that two digests are
\* equal exactly if their inputs are
Sha256(words) == <<DigestOpen>> \o words \o <<DigestClose>>

\* Buffer.readUInt32BE(0): a number that the digest determines
ReadUInt32BE(d) == Fold(d)

\* ------------------------------------------------------------------ state
VARIABLES now, sessions, participants, winners, arrs, objs, chain, resp,
          disk, writable, sel, inflight, restarts

vars == <<now, sessions, participants, winners, arrs, objs, chain, resp,
          disk, writable, sel, inflight, restarts>>

\* what the handlers of the main specification leave alone: whether the data
\* file can be written, the stand-alone selectWinners call, the requests
\* whose bodies are still arriving and the number of restarts of the process
env == <<writable, sel, inflight, restarts>>

\* ------------------------------------------------------------------ JSON
\* JSON.stringify of an array of strings
JsonArr(ss) == <<Len(ss)>> \o [i \in 1..Len(ss) |-> Code(ss[i])]

RECURSIVE JoinPairs(_, _)
JoinPairs(ps, heap) ==
  IF ps = <<>> THEN <<>>
  ELSE <<Code(Head(ps).k)>> \o JsonArr(heap[Head(ps).v]) \o JoinPairs(Tail(ps), heap)

\* JSON.stringify of a tiers object: its keys in insertion order
JsonObj(ps, heap) == <<Len(ps)>> \o JoinPairs(ps, heap)

\* JSON.stringify of a block payload; shared arrays and objects are read
\* through the heap as they are at the time of the call.
JsonData(d, as, os) ==
  IF "type" \notin DOMAIN d THEN <<Code(d.message)>>
  ELSE <<Code(d.type), d.sessionId>> \o
    CASE d.type = "SESSION_CREATED" -> <<Code(d.name)>> \o d.seedHash
      [] d.type = "USER_ENTERED" -> <<Code(d.user)>>
      [] d.type = "SEED_REVEALED" -> <<Code(d.seed)>>
      [] d.type = "USERS_IMPORTED" -> JsonArr(d.users)
      [] d.type = "DRAWN" ->
           JsonArr(as[d.winners]) \o JsonObj(os[d.tiers], as) \o d.randBase
      [] d.type = "TIER_DRAWN" ->
           <<Code(d.tier)>> \o JsonArr(as[d.winners]) \o d.randBase

\* the previousHash '0' of the genesis block, which is no digest
NoHash == <<0>>

\* ------------------------------------------------------------------ chain
\* Blockchain.computeHash: the digest of the block without its hash field
computeHash(block, as, os) ==
  Sha256(<<block.index, block.timestamp>> \o JsonData(block.data, as, os)
         \o block.previousHash)

\* Blockchain.createGenesisBlock
GenesisBlock(t) ==
  LET g == [index |-> 0, timestamp |-> t, data |-> [message |-> "Genesis Block"],
            previousHash |-> NoHash]
  IN [index |-> 0, timestamp |-> t, data |-> g.data, previousHash |-> NoHash,
      hash |-> computeHash(g, <<>>, <<>>)]

getLatestHashFirst(c) == c[1].hash

\* Blockchain.getLatestHash
getLatestHash(c) == c[Len(c)].hash

\* Blockchain.addBlock: the chain with the new block pushed
addBlock(c, data, t, as, os) ==
  LET lastBlock == c[Len(c)]
      block == [index |-> lastBlock.index + 1, timestamp |-> t, data |-> data,
                previousHash |-> lastBlock.hash]
  IN Append(c, [index |-> block.index, timestamp |-> t, data |-> data,
                previousHash |-> block.previousHash,
                hash |-> computeHash(block, as, os)])

\* Blockchain.isValid
isValid(c, as, os) ==
  \A i \in 2..Len(c) :
    /\ c[i].previousHash = c[i - 1].hash
    /\ computeHash(c[i], as, os) = c[i].hash

\* ------------------------------------------------------------------ helpers
SessionIds == 1..MaxTime
\* Array.prototype.includes
Includes(list, u) == \E i \in 1..Len(list) : list[i] = u
MinFirst(a, b) == a

\* Math.min
Min(a, b) == IF a < b THEN a ELSE b
Max(a, b) == IF a > b THEN a ELSE b

\* sendJSON(res, status, {error}) and sendJSON(res, 200, body)
Reply(op, status, error, body) ==
  [op |-> op, status |-> status, error |-> error, body |-> body]

\* no data file
NoFile == [file |-> "none"]

\* a data file that JSON.parse cannot read: writeFileSync has truncated it and
\* the write has failed
BadFile == [file |-> "unreadable"]

\* JSON.stringify(state): shared arrays and objects are written by value
Snapshot(ss, ps, ws, as, os) ==
  [sessions |-> ss, participants |-> ps,
   winners |-> [id \in DOMAIN ws |->
                  [all |-> as[ws[id].all],
                   tiers |-> [i \in 1..Len(os[ws[id].tiers]) |->
                                [k |-> os[ws[id].tiers][i].k,
                                 list |-> as[os[ws[id].tiers][i].v]]]]]]

\* no selectWinners call outside a handler
NoCall == [pc |-> "none"]

\* requests are served while the chain has room for the block one may append
Serving == Len(chain) < MaxChain

\* ------------------------------------------------------------------ selection
\* Buffer.concat([randBase, Buffer.from([i])]): the counter is one byte
HashInput(randBase, i) == randBase \o <<i % 256>>

RECURSIVE Shuffle(_, _, _, _, _)
\* the loop of selectWinners from step i on.  Past the end of the candidates
\* the swap reads and writes undefined elements: at i = n the index j is NaN,
\* which names no element, and arr[i] = undefined makes the array i + 1 long;
\* above n the remainder by the negative n - i has the sign of rnd, j is i or
\* more, and arr[j] = undefined makes the array at least j + 1 long.
Shuffle(arr, i, k, n, randBase) ==
  IF i >= k THEN arr
  ELSE LET h == Sha256(HashInput(randBase, i))
           rnd == ReadUInt32BE(h)
       IN IF i < n
          THEN LET j == (rnd % (n - i)) + i
               IN Shuffle([arr EXCEPT ![i + 1] = arr[j + 1], ![j + 1] = arr[i + 1]],
                          i + 1, k, n, randBase)
          ELSE LET j == IF i = n THEN i ELSE (rnd % (i - n)) + i
                   len == Max(Len(arr), j + 1)
               IN Shuffle(arr \o [x \in 1..(len - Len(arr)) |-> Undefined],
                          i + 1, k, n, randBase)

Slice0Whole(arr, k) == arr

\* Array.prototype.slice(0, k)
Slice0(arr, k) ==
  IF k >= 0 THEN SubSeq(arr, 1, Min(k, Len(arr)))
  ELSE SubSeq(arr, 1, Max(Len(arr) + k, 0))

selectWinners(list, k, randBase) ==
  Slice0(Shuffle(list, 0, k, Len(list), randBase), k)

WithoutNothing(list, drawn) == list

RECURSIVE Without(_, _)
\* list.filter(u => !drawn.includes(u))
Without(list, drawn) ==
  IF list = <<>> THEN <<>>
  ELSE (IF Includes(drawn, Head(list)) THEN <<>> ELSE <<Head(list)>>)
       \o Without(Tail(list), drawn)

\* ------------------------------------------------------------------ tiers
\* DEFAULT_COUNTS[tier], 0 where the tier has no entry
DEFAULT_COUNTS(tier) ==
  CASE tier = "special" -> 1
    [] tier = "first" -> 5
    [] tier = "second" -> 5
    [] tier = "third" -> 20
    [] OTHER -> 0

\* Object.keys(DEFAULT_COUNTS)
allTierNames == <<"special", "first", "second", "third">>

OrElseSecond(a, b) == b

\* a || b on numbers
OrElse(a, b) == IF a # 0 THEN a ELSE b

\* obj[key] of a tiers object: the array reference, 0 where the key is absent
Lookup(ps, key) ==
  IF \E i \in 1..Len(ps) : ps[i].k = key
  THEN ps[CHOOSE i \in 1..Len(ps) : ps[i].k = key].v
  ELSE 0

\* obj[key] = ref: an existing key keeps its place, a new one goes last
SetKey(ps, key, ref) ==
  IF \E i \in 1..Len(ps) : ps[i].k = key
  THEN [i \in 1..Len(ps) |-> IF ps[i].k = key THEN [k |-> key, v |-> ref] ELSE ps[i]]
  ELSE Append(ps, [k |-> key, v |-> ref])

\* winnersObj.tiers[tier] && winnersObj.tiers[tier].length > 0
TierDrawn(ps, tier, as) == Lookup(ps, tier) # 0 /\ Len(as[Lookup(ps, tier)]) > 0

\* ------------------------------------------------------------------ guards
AlreadyEnrolledNever(list, user) == FALSE

\* list.includes(user)
AlreadyEnrolled(list, user) == Includes(list, user)

SeedMatchesAny(session, seed) == TRUE

\* computedHash === session.seedHash
SeedMatches(session, seed) == Sha256(<<Code(seed)>>) = session.seedHash

SeedRevealedAlways(session) == TRUE

\* session.revealedSeed is truthy
SeedRevealed(session) == session.revealedSeed # Null

\* ------------------------------------------------------------------ init
\* the server started without a data file
Start ==
  /\ now = 1
  /\ sessions = << >>
  /\ participants = << >>
  /\ winners = << >>
  /\ arrs = << >>
  /\ objs = << >>
  /\ chain = << GenesisBlock(1) >>
  /\ resp = Reply("start", 200, "", <<>>)
  /\ disk = NoFile
  /\ inflight = << >>
  /\ restarts = 0

Init ==
  /\ Start
  /\ writable = TRUE
  /\ sel = NoCall

\* saveState() and the reply after it, at the end of a handler that has
\* changed the stores: the data file takes the snapshot and the reply is the
\* handler's, or writeFileSync throws and the catch clause replies 500.  It
\* throws when it opens the file, which stays as it was, or when it writes
\* the file it has truncated, which stays unreadable.
saveState(op, body) ==
  IF writable
  THEN /\ disk' = Snapshot(sessions', participants', winners', arrs', objs')
       /\ resp' = Reply(op, 200, "", body)
  ELSE /\ disk' \in {disk, BadFile}
       /\ resp' = Reply(op, 500, "Server error", <<>>)

\* Date.now() moves on between two requests
Tick ==
  /\ now < MaxTime
  /\ now' = now + 1
  /\ UNCHANGED <<sessions, participants, winners, arrs, objs, chain, resp, disk>>

\* a reply that leaves the stores and the chain alone
Reject(op, status, error) ==
  /\ resp' = Reply(op, status, error, <<>>)
  /\ UNCHANGED <<now, sessions, participants, winners, arrs, objs, chain, disk>>

\* ------------------------------------------------------------------ handlers
\* POST /api/createSession.  The handler reads the clock for the identifier
\* and addBlock reads it again for the timestamp of the block: the clock may
\* have moved on in between.
CreateSession(seedHash) ==
  LET id == now
      as == Append(arrs, <<>>)
      os == Append(objs, <<>>)
  IN \E t \in now..MaxTime :
       /\ sessions' = (id :> [id |-> id, name |-> SessionName, seedHash |-> seedHash,
                              revealedSeed |-> Null, drawn |-> FALSE]) @@ sessions
       /\ participants' = (id :> <<>>) @@ participants
       /\ winners' = (id :> [all |-> Len(as), tiers |-> Len(os)]) @@ winners
       /\ arrs' = as
       /\ objs' = os
       /\ chain' = addBlock(chain, [type |-> "SESSION_CREATED", sessionId |-> id,
                                    name |-> SessionName, seedHash |-> seedHash],
                            t, as, os)
       /\ now' = t
       /\ saveState("createSession", <<id>>)

EnterUnchecked(sessionId, user) ==
  /\ LET list == IF sessionId \in DOMAIN participants THEN participants[sessionId]
                 ELSE <<>>
     IN IF ~AlreadyEnrolled(list, user)
        THEN /\ participants' = (sessionId :> Append(list, user)) @@ participants
             /\ chain' = addBlock(chain, [type |-> "USER_ENTERED",
                                          sessionId |-> sessionId, user |-> user],
                                  now, arrs, objs)
             /\ UNCHANGED <<now, sessions, winners, arrs, objs>>
             /\ saveState("enter", Append(list, user))
        ELSE /\ resp' = Reply("enter", 200, "", list)
             /\ UNCHANGED <<now, sessions, participants, winners, arrs, objs, chain, disk>>

\* POST /api/enter
Enter(sessionId, user) ==
  /\ IF sessionId \notin DOMAIN sessions
     THEN Reject("enter", 404, "session not found")
     ELSE LET list == participants[sessionId]
          IN IF ~AlreadyEnrolled(list, user)
             THEN /\ participants' = [participants EXCEPT ![sessionId] = Append(list, user)]
                  /\ chain' = addBlock(chain, [type |-> "USER_ENTERED",
                                               sessionId |-> sessionId, user |-> user],
                                       now, arrs, objs)
                  /\ UNCHANGED <<now, sessions, winners, arrs, objs>>
                  /\ saveState("enter", Append(list, user))
             ELSE /\ resp' = Reply("enter", 200, "", list)
                  /\ UNCHANGED <<now, sessions, participants, winners, arrs, objs, chain, disk>>

\* POST /api/revealSeed
RevealSeed(sessionId, seed) ==
  /\ IF sessionId \notin DOMAIN sessions
     THEN Reject("revealSeed", 404, "session not found")
     ELSE IF ~SeedMatches(sessions[sessionId], seed)
     THEN Reject("revealSeed", 400, "seed hash mismatch")
     ELSE /\ sessions' = [sessions EXCEPT ![sessionId].revealedSeed = seed]
          /\ chain' = addBlock(chain, [type |-> "SEED_REVEALED",
                                       sessionId |-> sessionId, seed |-> seed],
                               now, arrs, objs)
          /\ UNCHANGED <<now, participants, winners, arrs, objs>>
          /\ saveState("revealSeed", <<>>)

RECURSIVE ImportLoopUnchecked(_, _, _)
ImportLoopUnchecked(users, list, added) ==
  IF users = <<>> THEN [list |-> list, added |-> added]
  ELSE LET u == Trim(Head(users))
       IN IF u # ""
          THEN ImportLoopUnchecked(Tail(users), Append(list, u), Append(added, u))
          ELSE ImportLoopUnchecked(Tail(users), list, added)

RECURSIVE ImportLoop(_, _, _)
\* users.forEach of /api/importParticipants: the list and the added users
ImportLoop(users, list, added) ==
  IF users = <<>> THEN [list |-> list, added |-> added]
  ELSE LET u == Trim(Head(users))
       IN IF u # "" /\ ~Includes(list, u)
          THEN ImportLoop(Tail(users), Append(list, u), Append(added, u))
          ELSE ImportLoop(Tail(users), list, added)

\* POST /api/importParticipants
ImportParticipants(sessionId, users) ==
  /\ IF sessionId \notin DOMAIN sessions
     THEN Reject("importParticipants", 404, "session not found")
     ELSE LET r == ImportLoop(users, participants[sessionId], <<>>)
          IN /\ participants' = [participants EXCEPT ![sessionId] = r.list]
             /\ chain' = IF Len(r.added) > 0
                         THEN addBlock(chain, [type |-> "USERS_IMPORTED",
                                               sessionId |-> sessionId, users |-> r.added],
                                       now, arrs, objs)
                         ELSE chain
             /\ UNCHANGED <<now, sessions, winners, arrs, objs>>
             /\ saveState("importParticipants", r.added)

RECURSIVE TierLoop(_, _, _, _, _)
\* the for loop of /api/draw over Object.keys(tierCounts): the tiers drawn so
\* far (key and winners, in key order) and the winners of all of them
TierLoop(tierCounts, remaining, tiers, allWinners, randBase) ==
  IF tierCounts = <<>> THEN [tiers |-> tiers, all |-> allWinners]
  ELSE LET tier == Head(tierCounts)[1]
           count == Min(OrElse(Head(tierCounts)[2], 0), Len(remaining))
       IN IF count > 0
          THEN LET tierRand == Sha256(randBase \o <<Code(tier)>>)
                   winnersList == selectWinners(remaining, count, tierRand)
               IN TierLoop(Tail(tierCounts), Without(remaining, winnersList),
                           Append(tiers, [k |-> tier, list |-> winnersList]),
                           allWinners \o winnersList, randBase)
          ELSE TierLoop(Tail(tierCounts), remaining,
                        Append(tiers, [k |-> tier, list |-> <<>>]), allWinners, randBase)

\* POST /api/draw
Draw(sessionId, numWinners, tierCounts) ==
  /\ IF sessionId \notin DOMAIN sessions
     THEN Reject("draw", 404, "session not found")
     ELSE IF sessions[sessionId].drawn
     THEN Reject("draw", 400, "session already drawn")
     ELSE IF ~SeedRevealed(sessions[sessionId])
     THEN Reject("draw", 400, "seed not revealed")
     ELSE IF Len(participants[sessionId]) = 0
     THEN Reject("draw", 400, "no participants")
     ELSE
       LET session == sessions[sessionId]
           list == participants[sessionId]
           tip == getLatestHash(chain)
           randBase == Sha256(tip \o <<Code(session.revealedSeed), Len(list)>>)
       IN IF tierCounts # <<>>
          THEN LET r == TierLoop(tierCounts, list, <<>>, <<>>, randBase)
                   m == Len(r.tiers)
                   all == Len(arrs) + m + 1
                   tiers == Len(objs) + 1
                   as == arrs \o [i \in 1..m |-> r.tiers[i].list] \o <<r.all>>
                   os == Append(objs, [i \in 1..m |->
                                         [k |-> r.tiers[i].k, v |-> Len(arrs) + i]])
               IN /\ sessions' = [sessions EXCEPT ![sessionId].drawn = TRUE]
                  /\ winners' = [winners EXCEPT ![sessionId] = [all |-> all, tiers |-> tiers]]
                  /\ arrs' = as
                  /\ objs' = os
                  /\ chain' = addBlock(chain, [type |-> "DRAWN", sessionId |-> sessionId,
                                               winners |-> all, tiers |-> tiers,
                                               randBase |-> randBase], now, as, os)
                  /\ UNCHANGED <<now, participants>>
                  /\ saveState("draw", r.all)
          ELSE LET k == Min(OrElse(numWinners, 1), Len(list))
                   picked == selectWinners(list, k, randBase)
                   ref == Len(arrs) + 1
                   as == Append(arrs, picked)
                   os == objs \o << <<[k |-> "default", v |-> ref]>>,
                                    <<[k |-> "default", v |-> ref]>> >>
               IN /\ sessions' = [sessions EXCEPT ![sessionId].drawn = TRUE]
                  /\ winners' = [winners EXCEPT ![sessionId] =
                                   [all |-> ref, tiers |-> Len(objs) + 1]]
                  /\ arrs' = as
                  /\ objs' = os
                  /\ chain' = addBlock(chain, [type |-> "DRAWN", sessionId |-> sessionId,
                                               winners |-> ref, tiers |-> Len(objs) + 2,
                                               randBase |-> randBase], now, as, os)
                  /\ UNCHANGED <<now, participants>>
                  /\ saveState("draw", picked)

\* POST /api/drawTier
DrawTier(sessionId, tier, count) ==
  /\ IF sessionId \notin DOMAIN sessions
     THEN Reject("drawTier", 404, "session not found")
     ELSE IF ~SeedRevealed(sessions[sessionId])
     THEN Reject("drawTier", 400, "seed not revealed")
     ELSE IF TierDrawn(objs[winners[sessionId].tiers], tier, arrs)
     THEN Reject("drawTier", 400, "tier already drawn")
     ELSE
       LET session == sessions[sessionId]
           targetCount == OrElse(OrElse(count, DEFAULT_COUNTS(tier)), 1)
           winnersObj == winners[sessionId]
           list == participants[sessionId]
           remaining == Without(list, arrs[winnersObj.all])
       IN IF Len(remaining) = 0
          THEN Reject("drawTier", 400, "no participants remaining")
          ELSE LET n == Min(targetCount, Len(remaining))
                   tip == getLatestHash(chain)
                   randBase == Sha256(tip \o <<Code(session.revealedSeed), Code(tier)>>)
                   winnersList == selectWinners(remaining, n, randBase)
                   ref == Len(arrs) + 1
                   as == [Append(arrs, winnersList) EXCEPT ![winnersObj.all] = @ \o winnersList]
                   os == [objs EXCEPT ![winnersObj.tiers] = SetKey(@, tier, ref)]
                   drawn == \A i \in 1..Len(allTierNames) :
                              TierDrawn(os[winnersObj.tiers], allTierNames[i], as)
               IN /\ arrs' = as
                  /\ objs' = os
                  /\ sessions' = [sessions EXCEPT ![sessionId].drawn = drawn]
                  /\ chain' = addBlock(chain, [type |-> "TIER_DRAWN", sessionId |-> sessionId,
                                               tier |-> tier, winners |-> ref,
                                               randBase |-> randBase], now, as, os)
                  /\ UNCHANGED <<now, participants, winners>>
                  /\ saveState("drawTier", winnersList)

\* ------------------------------------------------------------------ system
Next ==
  \/ Tick /\ UNCHANGED env
  \/ Serving /\ \E s \in Seeds : CreateSession(Sha256(<<Code(s)>>)) /\ UNCHANGED env
  \/ Serving /\ \E sid \in SessionIds, u \in Users : Enter(sid, u) /\ UNCHANGED env
  \/ Serving /\ \E sid \in SessionIds, us \in Batches :
       ImportParticipants(sid, us) /\ UNCHANGED env
  \/ Serving /\ \E sid \in SessionIds, s \in Seeds : RevealSeed(sid, s) /\ UNCHANGED env
  \/ Serving /\ \E sid \in SessionIds, d \in DrawInputs :
       Draw(sid, d.numWinners, d.tierCounts) /\ UNCHANGED env
  \/ Serving /\ \E sid \in SessionIds, t \in DrawTiers, k \in Counts :
       DrawTier(sid, t, k) /\ UNCHANGED env

Spec == Init /\ [][Next]_vars

\* ------------------------------------------------------------------ selectWinners alone
\* selectWinners called on its own, statement by statement, several times on
\* the same arguments.
SelMaterials == {Sha256(<<m>>) : m \in 1..MaxMaterial}

SelInit ==
  /\ Start
  /\ writable = TRUE
  /\ sel \in {[pc |-> "idle", participants |-> c, randBase |-> m, k |-> k,
               arr |-> <<>>, i |-> 0, hashes |-> 0, runs |-> <<>>] :
                 c \in SelCandidates, m \in SelMaterials, k \in SelCounts}

\* const arr = participants.slice(); const n = arr.length; let i = 0
SelCall ==
  /\ sel.pc = "idle"
  /\ Len(sel.runs) < MaxRuns
  /\ sel' = [sel EXCEPT !.pc = "loop", !.arr = sel.participants, !.i = 0, !.hashes = 0]
  /\ UNCHANGED <<now, sessions, participants, winners, arrs, objs, chain, resp,
                 disk, writable, inflight, restarts>>

SelStepInPlace ==
  /\ sel.pc = "loop"
  /\ sel.i < sel.k
  /\ sel' = [sel EXCEPT !.arr = Shuffle(sel.arr, sel.i, sel.i + 1,
                                        Len(sel.participants), sel.randBase),
                        !.participants = Shuffle(sel.arr, sel.i, sel.i + 1,
                                                 Len(sel.participants), sel.randBase),
                        !.i = @ + 1, !.hashes = @ + 1]
  /\ UNCHANGED <<now, sessions, participants, winners, arrs, objs, chain, resp,
                 disk, writable, inflight, restarts>>

\* one turn of the for loop: one hash, one swap
SelStep ==
  /\ sel.pc = "loop"
  /\ sel.i < sel.k
  /\ sel' = [sel EXCEPT !.arr = Shuffle(sel.arr, sel.i, sel.i + 1,
                                        Len(sel.participants), sel.randBase),
                        !.i = @ + 1, !.hashes = @ + 1]
  /\ UNCHANGED <<now, sessions, participants, winners, arrs, objs, chain, resp,
                 disk, writable, inflight, restarts>>

\* return arr.slice(0, k)
SelReturn ==
  /\ sel.pc = "loop"
  /\ ~(sel.i < sel.k)
  /\ sel' = [sel EXCEPT !.pc = "idle",
                        !.runs = Append(@, [out |-> Slice0(sel.arr, sel.k),
                                            hashes |-> sel.hashes, at |-> now])]
  /\ UNCHANGED <<now, sessions, participants, winners, arrs, objs, chain, resp,
                 disk, writable, inflight, restarts>>

SelNext ==
  \/ SelCall
  \/ SelStep
  \/ SelReturn
  \/ Tick /\ UNCHANGED env

SelSpec == SelInit /\ [][SelNext]_vars

\* selectWinners called on a long list of candidates, named by their numbers,
\* for all of them or all but one
WideInit ==
  /\ Start
  /\ writable = TRUE
  /\ sel \in {[pc |-> "idle", participants |-> [c \in 1..WideLen |-> c],
               randBase |-> m, k |-> k,
               arr |-> <<>>, i |-> 0, hashes |-> 0, runs |-> <<>>] :
                 m \in SelMaterials, k \in {WideLen - 1, WideLen}}

WideSpec == WideInit /\ [][SelNext]_vars

\* ------------------------------------------------------------------ bodies in flight
\* drawTier requests whose bodies arrive chunk by chunk while other requests
\* arrive and are served: requestListener registers the data and end
\* listeners, every data event appends a chunk, the end event runs the handler.
Arrive(sessionId, tier, count) ==
  /\ Len(inflight) < MaxRequests
  /\ inflight' = Append(inflight,
                        [sessionId |-> sessionId, tier |-> tier, count |-> count,
                         got |-> 0, status |-> 0, error |-> "", winners |-> <<>>,
                         peers |-> {r \in 1..Len(inflight) : inflight[r].status = 0}])
  /\ UNCHANGED <<now, sessions, participants, winners, arrs, objs, chain, resp,
                 disk, writable, sel, restarts>>

\* req.on('data', chunk => body += chunk)
Data(r) ==
  /\ inflight[r].status = 0
  /\ inflight[r].got < MaxChunks
  /\ inflight' = [inflight EXCEPT ![r].got = @ + 1]
  /\ UNCHANGED <<now, sessions, participants, winners, arrs, objs, chain, resp,
                 disk, writable, sel, restarts>>

\* req.on('end', ...): the body is parsed and the handler runs to its reply
End(r) ==
  /\ inflight[r].status = 0
  /\ inflight[r].got >= 1
  /\ Serving
  /\ DrawTier(inflight[r].sessionId, inflight[r].tier, inflight[r].count)
  /\ inflight' = [inflight EXCEPT ![r].status = resp'.status,
                                  ![r].error = resp'.error,
                                  ![r].winners = resp'.body]
  /\ UNCHANGED <<writable, sel, restarts>>

ConcNext ==
  \/ Serving /\ \E s \in Seeds :
       DOMAIN sessions = {} /\ CreateSession(Sha256(<<Code(s)>>)) /\ UNCHANGED env
  \/ Serving /\ \E sid \in SessionIds, u \in Users : Enter(sid, u) /\ UNCHANGED env
  \/ Serving /\ \E sid \in SessionIds, s \in Seeds : RevealSeed(sid, s) /\ UNCHANGED env
  \/ \E q \in ConcRequests : Arrive(q.sessionId, q.tier, q.count)
  \/ \E r \in 1..Len(inflight) : Data(r)
  \/ \E r \in 1..Len(inflight) : End(r)

ConcSpec == Init /\ [][ConcNext]_vars

\* ------------------------------------------------------------------ restart
\* The createSession, enter, importParticipants, revealSeed and draw requests
\* on one session, served while the process may stop and start again:
\* the module-level code of server.js runs once more, reads the data file and
\* builds a new chain.
RECURSIVE Ascending(_)
\* the keys of a saved store, one after the other
Ascending(ids) ==
  IF ids = {} THEN <<>>
  ELSE LET m == CHOOSE x \in ids : \A y \in ids : x <= y
       IN <<m>> \o Ascending(ids \ {m})

RECURSIVE Parse(_, _, _, _, _)
\* JSON.parse of the winners store: every array and object of the file is a
\* new one, nothing is shared
Parse(ids, saved, ws, as, os) ==
  IF ids = <<>> THEN [winners |-> ws, arrs |-> as, objs |-> os]
  ELSE LET id == Head(ids)
           m == Len(saved[id].tiers)
           as2 == as \o <<saved[id].all>> \o [i \in 1..m |-> saved[id].tiers[i].list]
           os2 == Append(os, [i \in 1..m |->
                                [k |-> saved[id].tiers[i].k, v |-> Len(as) + 1 + i]])
       IN Parse(Tail(ids), saved,
                (id :> [all |-> Len(as) + 1, tiers |-> Len(os2)]) @@ ws, as2, os2)

\* let state = {...}; if (fs.existsSync(DATA_FILE)) try { state =
\* JSON.parse(...) } catch { starting fresh }; const chain = new Blockchain()
Restart ==
  /\ restarts < MaxRestarts
  /\ restarts' = restarts + 1
  /\ IF disk \in {NoFile, BadFile}
     THEN /\ sessions' = << >>
          /\ participants' = << >>
          /\ winners' = << >>
          /\ arrs' = << >>
          /\ objs' = << >>
     ELSE LET heap == Parse(Ascending(DOMAIN disk.winners), disk.winners,
                            << >>, << >>, << >>)
          IN /\ sessions' = disk.sessions
             /\ participants' = disk.participants
             /\ winners' = heap.winners
             /\ arrs' = heap.arrs
             /\ objs' = heap.objs
  /\ chain' = << GenesisBlock(now) >>
  /\ resp' = Reply("start", 200, "", <<>>)
  /\ UNCHANGED <<now, disk, writable, sel, inflight>>

RestartNext ==
  \/ Restart
  \/ Serving /\ \E s \in Seeds :
       DOMAIN sessions = {} /\ CreateSession(Sha256(<<Code(s)>>)) /\ UNCHANGED env
  \/ Serving /\ \E sid \in SessionIds, u \in Users : Enter(sid, u) /\ UNCHANGED env
  \/ Serving /\ \E sid \in SessionIds, us \in Batches :
       ImportParticipants(sid, us) /\ UNCHANGED env
  \/ Serving /\ \E sid \in SessionIds, s \in Seeds : RevealSeed(sid, s) /\ UNCHANGED env
  \/ Serving /\ \E sid \in SessionIds, d \in DrawInputs :
       Draw(sid, d.numWinners, d.tierCounts) /\ UNCHANGED env

RestartSpec == Init /\ [][RestartNext]_vars

\* ------------------------------------------------------------------ failing writes
\* The requests on one session (drawTier with a count of 2), served while the
\* data file may become unwritable (and writable again) between two requests,
\* and the process may start again from a file that a failed write has left
\* unreadable.
DiskFault ==
  /\ writable' = ~writable
  /\ UNCHANGED <<now, sessions, participants, winners, arrs, objs, chain, resp,
                 disk, sel, inflight, restarts>>

FaultNext ==
  \/ DiskFault
  \/ disk = BadFile /\ Restart
  \/ Serving /\ \E s \in Seeds :
       DOMAIN sessions = {} /\ CreateSession(Sha256(<<Code(s)>>)) /\ UNCHANGED env
  \/ Serving /\ \E sid \in SessionIds, u \in Users : Enter(sid, u) /\ UNCHANGED env
  \/ Serving /\ \E sid \in SessionIds, us \in Batches :
       ImportParticipants(sid, us) /\ UNCHANGED env
  \/ Serving /\ \E sid \in SessionIds, s \in Seeds : RevealSeed(sid, s) /\ UNCHANGED env
  \/ Serving /\ \E sid \in SessionIds, d \in DrawInputs :
       Draw(sid, d.numWinners, d.tierCounts) /\ UNCHANGED env
  \/ Serving /\ \E sid \in SessionIds, t \in DrawTiers :
       DrawTier(sid, t, 2) /\ UNCHANGED env

FaultSpec == Init /\ [][FaultNext]_vars

\* ------------------------------------------------------------------ draws on one session
\* One session with its imported participants and its seed, and the draws
\* that follow one another on it: drawTier (with a count of 2) and the legacy
\* draw, on a chain that has room for three of them.
RedrawServing == Len(chain) < MaxRedrawChain

RedrawNext ==
  \/ RedrawServing /\ \E s \in Seeds :
       DOMAIN sessions = {} /\ CreateSession(Sha256(<<Code(s)>>)) /\ UNCHANGED env
  \/ RedrawServing /\ \E sid \in SessionIds, us \in Batches :
       ImportParticipants(sid, us) /\ UNCHANGED env
  \/ RedrawServing /\ \E sid \in SessionIds, s \in Seeds :
       RevealSeed(sid, s) /\ UNCHANGED env
  \/ RedrawServing /\ \E sid \in SessionIds, d \in DrawInputs :
       Draw(sid, d.numWinners, d.tierCounts) /\ UNCHANGED env
  \/ RedrawServing /\ \E sid \in SessionIds, t \in DrawTiers :
       DrawTier(sid, t, 2) /\ UNCHANGED env

RedrawSpec == Init /\ [][RedrawNext]_vars

\* ------------------------------------------------------------------ claims
Last(c) == c[Len(c)]
ToSet(list) == {list[i] : i \in 1..Len(list)}
Occurrences(list, u) == Cardinality({i \in 1..Len(list) : list[i] = u})
NoDuplicates(list) == \A i, j \in 1..Len(list) : list[i] = list[j] => i = j
\* the winners of a session: allWinners and the tier lists, read through the heap
AllWinners(sid) == arrs[winners[sid].all]
TierLists(sid) == [i \in 1..Len(objs[winners[sid].tiers]) |-> arrs[objs[winners[sid].tiers][i].v]]

\* C1: after every step the chain verifies: each block links to the hash of
\* the block before it and its stored hash is the hash recomputed over it.
C1_ChainVerifies == isValid(chain, arrs, objs)

\* C2: in every session allWinners has no identifier twice and is the union
\* of the tier lists, and no identifier is in two tiers or twice in a tier.
C2_NoDoubleWinners ==
  \A sid \in DOMAIN sessions :
    /\ NoDuplicates(AllWinners(sid))
    /\ ToSet(AllWinners(sid)) = UNION {ToSet(TierLists(sid)[i]) : i \in DOMAIN TierLists(sid)}
    /\ \A i \in DOMAIN TierLists(sid) : NoDuplicates(TierLists(sid)[i])
    /\ \A i, j \in DOMAIN TierLists(sid) :
         i # j => ToSet(TierLists(sid)[i]) \cap ToSet(TierLists(sid)[j]) = {}

\* the blocks of the chain by payload type
IsType(b, type) == "type" \in DOMAIN b.data /\ b.data.type = type
IsDrawBlock(b) == IsType(b, "DRAWN") \/ IsType(b, "TIER_DRAWN")
HasTierDrawn(c, sid, t) ==
  \E i \in 1..Len(c) :
    IsType(c[i], "TIER_DRAWN") /\ c[i].data.sessionId = sid /\ c[i].data.tier = t
Reveals(c, sid) ==
  {i \in 1..Len(c) : IsType(c[i], "SEED_REVEALED") /\ c[i].data.sessionId = sid}

\* the calls of one session
EnterCall(sid) == \E u \in Users : Enter(sid, u)
ImportCall(sid) == \E us \in Batches : ImportParticipants(sid, us)
RevealCall(sid) == \E s \in Seeds : RevealSeed(sid, s)
DrawCall(sid) == \E d \in DrawInputs : Draw(sid, d.numWinners, d.tierCounts)
DrawTierCall(sid) == \E t \in DrawTiers, k \in Counts : DrawTier(sid, t, k)

\* C3: once drawTier has succeeded for a session and tier, every later
\* drawTier call for the same pair fails with "tier already drawn" and leaves
\* the winners and the chain unchanged.
C3_TierImmutable ==
  [][\A sid \in DOMAIN sessions, t \in DrawTiers :
       (HasTierDrawn(chain, sid, t) /\ \E k \in Counts : DrawTier(sid, t, k)) =>
         /\ resp'.status = 400
         /\ resp'.error = "tier already drawn"
         /\ UNCHANGED <<winners, arrs, objs, chain>>]_vars

\* C4: revealSeed with a secret whose hash is not the committed hash fails
\* with "seed hash mismatch"; the revealed seed stays as it was (unset before
\* the reveal), the session record and the chain are unchanged.
C4_WrongSecretRejected ==
  [][\A sid \in DOMAIN sessions, s \in Seeds :
       (RevealSeed(sid, s) /\ Sha256(<<Code(s)>>) # sessions[sid].seedHash) =>
         /\ resp'.status = 400
         /\ resp'.error = "seed hash mismatch"
         /\ sessions'[sid].revealedSeed = sessions[sid].revealedSeed
         /\ sessions' = sessions
         /\ chain' = chain]_vars

\* a wrong secret was refused on a session that is not yet revealed
C4_Witness ==
  /\ resp.op = "revealSeed"
  /\ resp.error = "seed hash mismatch"
  /\ \E sid \in DOMAIN sessions :
       /\ sessions[sid].revealedSeed = Null
       /\ \E s \in Seeds : Sha256(<<Code(s)>>) # sessions[sid].seedHash

\* C5: on a session whose seed is not revealed, drawTier and draw fail with
\* "seed not revealed", record no winners and append no block; and the random
\* base of every draw that succeeds is hashed from the chain tip and the
\* revealed seed the session stored before the call.
C5_DrawGated ==
  [][/\ \A sid \in DOMAIN sessions :
          (sessions[sid].revealedSeed = Null /\ (DrawTierCall(sid) \/ DrawCall(sid))) =>
            /\ resp'.status = 400
            /\ resp'.error = "seed not revealed"
            /\ UNCHANGED <<winners, arrs, objs, chain>>
     /\ (resp'.op \in {"draw", "drawTier"} /\ resp'.status = 200 /\ chain' # chain) =>
          LET d == Last(chain').data
              seed == sessions[d.sessionId].revealedSeed
          IN /\ seed # Null
             /\ d.randBase =
                  Sha256(getLatestHash(chain) \o
                         <<Code(seed),
                           IF d.type = "TIER_DRAWN" THEN Code(d.tier)
                           ELSE Len(participants[d.sessionId])>>)]_vars

\* a draw was refused on an unrevealed session that has participants
C5_Witness ==
  /\ resp.op \in {"draw", "drawTier"}
  /\ resp.error = "seed not revealed"
  /\ \E sid \in DOMAIN sessions :
       sessions[sid].revealedSeed = Null /\ Len(participants[sid]) > 0

\* C6: once the seed of a session is revealed, every enter and
\* importParticipants call for it is rejected (it enrolls nobody and appends
\* no block) and participants stays as it was at the reveal.
C6_NoEnrollAfterReveal ==
  [][\A sid \in DOMAIN sessions :
       (sessions[sid].revealedSeed # Null /\ (EnterCall(sid) \/ ImportCall(sid))) =>
         /\ participants'[sid] = participants[sid]
         /\ chain' = chain]_vars

\* C7: a revealSeed call on a session whose seed is already revealed fails and
\* changes nothing, and the chain never holds more than one SEED_REVEALED
\* block for one session.
C7_RevealOnce ==
  [][\A sid \in DOMAIN sessions :
       (sessions[sid].revealedSeed # Null /\ RevealCall(sid)) =>
         /\ resp'.status # 200
         /\ sessions' = sessions
         /\ chain' = chain
         /\ Cardinality(Reveals(chain', sid)) <= 1]_vars

\* C8: no SEED_REVEALED block of a session follows a draw block of that
\* session in the chain.
C8_NoRevealAfterDraw ==
  \A i, j \in 1..Len(chain) :
    (i < j /\ IsDrawBlock(chain[i]) /\ IsType(chain[j], "SEED_REVEALED"))
      => chain[i].data.sessionId # chain[j].data.sessionId

\* C9: enter leaves exactly one occurrence of the identifier in participants,
\* and an enter of an identifier already enrolled changes neither the
\* participants nor the chain.
C9_EnterIdempotent ==
  [][\A sid \in DOMAIN sessions, u \in Users :
       Enter(sid, u) =>
         /\ Occurrences(participants'[sid], u) = 1
         /\ Includes(participants[sid], u) =>
              (participants' = participants /\ chain' = chain)]_vars

\* an enter that added nothing: the reply is that of enter and the last block
\* of the chain is no USER_ENTERED block
C9_Witness ==
  /\ resp.op = "enter"
  /\ resp.status = 200
  /\ Len(resp.body) > 0
  /\ ~IsType(Last(chain), "USER_ENTERED")

\* C10: once the drawn flag of a session is true, every later enter,
\* importParticipants, drawTier and draw call for it is rejected (it appends
\* no block) and leaves participants and the winners unchanged.
C10_CompleteIsFinal ==
  [][\A sid \in DOMAIN sessions :
       (sessions[sid].drawn
        /\ (EnterCall(sid) \/ ImportCall(sid) \/ DrawTierCall(sid) \/ DrawCall(sid))) =>
         UNCHANGED <<participants, winners, arrs, objs, chain>>]_vars

\* the identifiers of a session that have not won yet
Remaining(sid) == ToSet(participants[sid]) \ ToSet(AllWinners(sid))

\* C11: a drawTier that succeeds with a count of at least one returns and
\* records (in the tier's entry and in its block) exactly as many winners as
\* the smaller of the count and the number of participants that had not won
\* before the call.
C11_TierDrawCount ==
  [][\A sid \in DOMAIN sessions, t \in DrawTiers, k \in Counts :
       (k >= 1 /\ DrawTier(sid, t, k) /\ resp'.status = 200) =>
         /\ Len(resp'.body) =
              (IF k < Cardinality(Remaining(sid)) THEN k ELSE Cardinality(Remaining(sid)))
         /\ arrs'[Last(chain').data.winners] = resp'.body
         /\ arrs'[Lookup(objs'[winners[sid].tiers], t)] = resp'.body]_vars

\* a tier that has no default count was drawn with two winners, as with a
\* count of two while at least two participants remained
C11_Witness ==
  /\ resp.op = "drawTier"
  /\ resp.status = 200
  /\ IsType(Last(chain), "TIER_DRAWN")
  /\ Last(chain).data.tier = "bonus"
  /\ Len(resp.body) = 2

\* the identifiers that the chain records as winners of a draw of the session
EarlierWinners(sid) ==
  UNION {ToSet(arrs[chain[i].data.winners]) :
           i \in {x \in 1..Len(chain) :
                    IsDrawBlock(chain[x]) /\ chain[x].data.sessionId = sid}}

\* C12: the winners of a drawTier that succeeds are pairwise distinct
\* participants of the session, none of which was among the winners the
\* session held before the call, and none of which has won an earlier draw
\* of the session.
C12_TierDrawFresh ==
  [][\A sid \in DOMAIN sessions :
       (DrawTierCall(sid) /\ resp'.status = 200) =>
         /\ NoDuplicates(resp'.body)
         /\ ToSet(resp'.body) \subseteq Remaining(sid)
         /\ ToSet(resp'.body) \cap EarlierWinners(sid) = {}]_vars

\* arr holds the candidates, each once
IsPermutation(arr, list) ==
  /\ Len(arr) = Len(list)
  /\ \A u \in ToSet(list) \cup ToSet(arr) : Occurrences(arr, u) = Occurrences(list, u)

\* C14: for 0 <= k <= n the working array of selectWinners stays a
\* permutation of the candidates, and the call returns exactly k pairwise
\* distinct candidates, its first k positions; for k = 0 it returns the empty
\* sequence and computes no hash.
C14_SelectContract ==
  (0 <= sel.k /\ sel.k <= Len(sel.participants)) =>
    /\ sel.pc = "loop" => IsPermutation(sel.arr, sel.participants)
    /\ \A r \in 1..Len(sel.runs) :
         /\ Len(sel.runs[r].out) = sel.k
         /\ NoDuplicates(sel.runs[r].out)
         /\ ToSet(sel.runs[r].out) \subseteq ToSet(sel.participants)
         /\ sel.runs[r].out = selectWinners(sel.participants, sel.k, sel.randBase)
         /\ sel.runs[r].hashes = sel.k
         /\ sel.k = 0 => (sel.runs[r].out = <<>> /\ sel.runs[r].hashes = 0)

\* a call with k = 2 on three candidates returned two of them, not the first two
C14_Witness ==
  /\ Len(sel.runs) >= 1
  /\ sel.k = 2
  /\ Len(sel.participants) = 3
  /\ Len(sel.runs[1].out) = 2
  /\ sel.runs[1].out # SubSeq(sel.participants, 1, 2)

\* C15: selectWinners called with k greater than the number of candidates
\* returns no sequence.
C15_SelectRejectsOversize ==
  sel.k > Len(sel.participants) => sel.runs = <<>>

\* C16: of two drawTier requests for the same session and tier that were in
\* flight together, at most one is answered with success.
C16_OneDrawTierWins ==
  \A r1, r2 \in 1..Len(inflight) :
    (/\ r1 \in inflight[r2].peers
     /\ inflight[r1].sessionId = inflight[r2].sessionId
     /\ inflight[r1].tier = inflight[r2].tier)
      => ~(inflight[r1].status = 200 /\ inflight[r2].status = 200)

\* C17: every request either succeeds, and then what it changed is in the
\* data file, or is answered with an error and leaves the sessions, the
\* participants, the winners and the chain as they were.
C17_Atomic ==
  [][(writable' = writable /\ restarts' = restarts) =>
       \/ /\ resp'.status = 200
          /\ <<sessions, participants, winners, arrs, objs>>'
               # <<sessions, participants, winners, arrs, objs>>
             => disk' = Snapshot(sessions', participants', winners', arrs', objs')
       \/ /\ resp'.status # 200
          /\ UNCHANGED <<sessions, participants, winners, arrs, objs, chain>>]_vars

IsEntryBlock(b) == IsType(b, "USER_ENTERED") \/ IsType(b, "USERS_IMPORTED")

\* C18: in the chain no USER_ENTERED or USERS_IMPORTED block of a session
\* comes after a SEED_REVEALED block of that session, and no DRAWN or
\* TIER_DRAWN block of a session comes before one.
C18_LifecycleOrder ==
  \A i, j \in 1..Len(chain) :
    (/\ IsType(chain[j], "SEED_REVEALED")
     /\ "type" \in DOMAIN chain[i].data
     /\ chain[i].data.sessionId = chain[j].data.sessionId)
      => /\ IsEntryBlock(chain[i]) => i < j
         /\ IsDrawBlock(chain[i]) => i > j

\* C19: createSession returns an identifier that no session had before the
\* call and leaves the record, the participants and the winners of every
\* existing session as they were.
C19_FreshSession ==
  [][\A s \in Seeds :
       CreateSession(Sha256(<<Code(s)>>)) =>
         /\ resp'.body[1] \notin DOMAIN sessions
         /\ \A sid \in DOMAIN sessions :
              /\ sessions'[sid] = sessions[sid]
              /\ participants'[sid] = participants[sid]
              /\ winners'[sid] = winners[sid]]_vars

IsPrefix(p, q) == Len(p) <= Len(q) /\ SubSeq(q, 1, Len(p)) = p

\* C20: the participants of a session only grow at the end: after every step
\* the list before the step is a prefix of the list after it.
C20_ParticipantsAppendOnly ==
  [][\A sid \in DOMAIN participants :
       IsPrefix(participants[sid], participants'[sid])]_vars

\* C21: no step changes the seed hash stored for a session, and a revealed
\* seed of a session hashes to the seed hash stored for it.
C21_CommitmentImmutable ==
  [][\A sid \in DOMAIN sessions :
       /\ sessions'[sid].seedHash = sessions[sid].seedHash
       /\ sessions'[sid].revealedSeed # Null =>
            Sha256(<<Code(sessions'[sid].revealedSeed)>>) = sessions'[sid].seedHash]_vars

\* the positions of a batch whose identifier is not enrolled and has not
\* occurred earlier in the batch, and the identifiers at these positions
FirstFresh(ids, list) ==
  {i \in 1..Len(ids) : ~Includes(list, ids[i]) /\ \A j \in 1..(i - 1) : ids[j] # ids[i]}
RECURSIVE PickFrom(_, _, _)
PickFrom(ids, keep, i) ==
  IF i > Len(ids) THEN <<>>
  ELSE (IF i \in keep THEN <<ids[i]>> ELSE <<>>) \o PickFrom(ids, keep, i + 1)
\* the batch as importParticipants reads it: every element trimmed
Trimmed(ids) == [i \in 1..Len(ids) |-> Trim(ids[i])]

\* C22 as stated: importParticipants appends, in batch order, exactly the
\* identifiers of the batch that were not enrolled and not seen earlier in the
\* batch, and returns them.
C22_ImportAddsFresh ==
  [][\A sid \in DOMAIN sessions, us \in Batches :
       ImportParticipants(sid, us) =>
         LET added == PickFrom(us, FirstFresh(us, participants[sid]), 1)
         IN /\ participants'[sid] = participants[sid] \o added
            /\ resp'.status = 200 => resp'.body = added
            /\ NoDuplicates(participants'[sid])]_vars

\* C22 amended: importParticipants trims every identifier of the batch, skips
\* those that are empty then, and appends, in batch order, exactly the trimmed
\* identifiers that were not enrolled and not seen earlier in the batch; the
\* call succeeds whenever the data file can be written and then returns them;
\* participants has no duplicate afterwards.
C22_ImportAddsFreshTrimmed ==
  [][\A sid \in DOMAIN sessions, us \in Batches :
       ImportParticipants(sid, us) =>
         LET ids == Trimmed(us)
             keep == {i \in FirstFresh(ids, participants[sid]) : ids[i] # ""}
             added == PickFrom(ids, keep, 1)
         IN /\ participants'[sid] = participants[sid] \o added
            /\ writable => resp'.status = 200
            /\ resp'.status = 200 => resp'.body = added
            /\ NoDuplicates(participants'[sid])]_vars

\* an import that skipped an enrolled identifier, a repeated one and a blank one
C22_Witness ==
  /\ resp.op = "importParticipants"
  /\ resp.status = 200
  /\ resp.body = <<"b", "c">>

\* C23: a drawTier call with a count of zero or less fails, records no
\* winners and appends no block.
C23_NonPositiveCountRejected ==
  [][\A sid \in DOMAIN sessions, t \in DrawTiers, k \in Counts :
       (k <= 0 /\ DrawTier(sid, t, k)) =>
         /\ resp'.status # 200
         /\ UNCHANGED <<winners, arrs, objs, chain>>]_vars

\* C24: enter, importParticipants, revealSeed, drawTier and draw called with
\* an identifier that no session has are answered 404 "session not found";
\* the sessions, the participants, the winners and the chain stay as they are
\* and no entry appears under that identifier.
C24_UnknownSessionRejected ==
  [][\A sid \in SessionIds \ DOMAIN sessions :
       (EnterCall(sid) \/ ImportCall(sid) \/ RevealCall(sid)
        \/ DrawTierCall(sid) \/ DrawCall(sid)) =>
         /\ resp'.status = 404
         /\ resp'.error = "session not found"
         /\ UNCHANGED <<sessions, participants, winners, arrs, objs, chain>>
         /\ sid \notin DOMAIN sessions' \cup DOMAIN participants' \cup DOMAIN winners']_vars

\* a call for an unknown identifier was refused while another session had
\* participants
C24_Witness ==
  /\ resp.status = 404
  /\ resp.error = "session not found"
  /\ \E sid \in DOMAIN sessions : Len(participants[sid]) > 0
  /\ SessionIds \ DOMAIN sessions # {}

\* C25: a drawTier call on a session all of whose participants have won (or
\* that has none) fails, with "no participants remaining" when the seed is
\* revealed and the tier is not drawn; it leaves the session record, the
\* winners and the chain unchanged.
C25_NoneRemainingRejected ==
  [][\A sid \in DOMAIN sessions, t \in DrawTiers, k \in Counts :
       (Remaining(sid) = {} /\ DrawTier(sid, t, k)) =>
         /\ resp'.status = 400
         /\ (sessions[sid].revealedSeed # Null
             /\ ~TierDrawn(objs[winners[sid].tiers], t, arrs))
              => resp'.error = "no participants remaining"
         /\ UNCHANGED <<sessions, winners, arrs, objs, chain>>]_vars

\* a drawTier was refused on a session whose participants have all won
C25_Witness ==
  /\ resp.op = "drawTier"
  /\ resp.error = "no participants remaining"
  /\ \E sid \in DOMAIN sessions :
       Len(participants[sid]) > 0 /\ Remaining(sid) = {}

\* a block as GET /api/blockchain shows it
BlockText(b, as, os) ==
  <<b.index, b.timestamp>> \o b.previousHash \o b.hash \o JsonData(b.data, as, os)

\* C26: every step leaves the chain as long as it was or one block longer
\* and changes no block that was in it; the block at position i has index i,
\* the first block is the only genesis block and its previousHash is '0'.
C26_ChainAppendOnly ==
  [][/\ Len(chain') \in {Len(chain), Len(chain) + 1}
     /\ \A i \in 1..Len(chain) :
          BlockText(chain'[i], arrs', objs') = BlockText(chain[i], arrs, objs)
     /\ \A i \in 1..Len(chain') :
          /\ chain'[i].index = i - 1
          /\ ("type" \notin DOMAIN chain'[i].data) <=> (i = 1)
     /\ chain'[1].previousHash = NoHash]_vars

\* the step appended one block of this type and nothing else
Appended(type) ==
  /\ Len(chain') = Len(chain) + 1
  /\ SubSeq(chain', 1, Len(chain)) = chain
  /\ IsType(Last(chain'), type)

\* the step appended the block of a call that changed something and succeeded,
\* and no block otherwise
BlockIff(changed, type) ==
  IF resp'.status = 200 /\ changed THEN Appended(type) ELSE chain' = chain

\* C27: a call that succeeds and changes a store appends exactly one block,
\* of the type of the call; a call that is answered with an error or changes
\* nothing appends none.
C27_OneBlockPerMutation ==
  [][/\ (\E s \in Seeds : CreateSession(Sha256(<<Code(s)>>)))
          => BlockIff(TRUE, "SESSION_CREATED")
     /\ \A sid \in SessionIds :
          /\ EnterCall(sid) => BlockIff(participants' # participants, "USER_ENTERED")
          /\ ImportCall(sid) => BlockIff(participants' # participants, "USERS_IMPORTED")
          /\ RevealCall(sid) => BlockIff(TRUE, "SEED_REVEALED")
          /\ DrawTierCall(sid) => BlockIff(TRUE, "TIER_DRAWN")
          /\ DrawCall(sid) => BlockIff(TRUE, "DRAWN")]_vars

\* C28: after a drawTier that succeeds the drawn flag of the session is true
\* exactly if each of the tiers special, first, second and third has an entry
\* in the tiers of the session.
C28_CompleteIffAllTiers ==
  [][\A sid \in DOMAIN sessions :
       (DrawTierCall(sid) /\ resp'.status = 200) =>
         (sessions'[sid].drawn <=>
            \A i \in 1..Len(allTierNames) :
              Lookup(objs'[winners'[sid].tiers], allTierNames[i]) # 0)]_vars

\* the last SEED_REVEALED block of a session before position i, 0 if none
LastReveal(c, sid, i) ==
  IF \E j \in Reveals(c, sid) : j < i
  THEN CHOOSE j \in Reveals(c, sid) :
         j < i /\ \A l \in Reveals(c, sid) : l < i => l <= j
  ELSE 0

\* C29: every TIER_DRAWN block links to the block before it, and its random
\* base is the hash of its previousHash, the seed of the last SEED_REVEALED
\* block of its session before it, and its tier.
C29_MaterialBoundToTip ==
  \A i \in 2..Len(chain) :
    IsType(chain[i], "TIER_DRAWN") =>
      LET j == LastReveal(chain, chain[i].data.sessionId, i)
      IN /\ chain[i].previousHash = chain[i - 1].hash
         /\ j # 0
         /\ chain[i].data.randBase =
              Sha256(chain[i].previousHash \o
                     <<Code(chain[j].data.seed), Code(chain[i].data.tier)>>)

\* a tier was drawn with a winner after another block followed the reveal
C29_Witness ==
  \E i \in 2..Len(chain) :
    /\ IsType(chain[i], "TIER_DRAWN")
    /\ Len(arrs[chain[i].data.winners]) > 0
    /\ ~IsType(chain[i - 1], "SEED_REVEALED")

\* C30: once the drawn flag of a session is true, no enter,
\* importParticipants, revealSeed, draw or drawTier call for the session
\* makes it false.
C30_DrawnMonotonic ==
  [][\A sid \in DOMAIN sessions :
       (sessions[sid].drawn
        /\ (EnterCall(sid) \/ ImportCall(sid) \/ RevealCall(sid)
            \/ DrawCall(sid) \/ DrawTierCall(sid)))
         => sessions'[sid].drawn]_vars

\* the winners recorded for a session before the step are still recorded
\* after it
WinnersKept(sid) ==
  /\ ToSet(arrs[winners[sid].all]) \subseteq ToSet(arrs'[winners'[sid].all])
  /\ \A i \in 1..Len(objs[winners[sid].tiers]) :
       LET e == objs[winners[sid].tiers][i]
       IN arrs[e.v] # <<>> =>
            \E l \in 1..Len(objs'[winners'[sid].tiers]) :
              /\ objs'[winners'[sid].tiers][l].k = e.k
              /\ arrs'[objs'[winners'[sid].tiers][l].v] = arrs[e.v]

\* C31: no enter, importParticipants, revealSeed, draw or drawTier call for
\* a session removes an identifier from its allWinners or changes the winner
\* list recorded for one of its tiers.
C31_WinnersNeverRewritten ==
  [][\A sid \in DOMAIN sessions :
       (EnterCall(sid) \/ ImportCall(sid) \/ RevealCall(sid)
        \/ DrawCall(sid) \/ DrawTierCall(sid)) => WinnersKept(sid)]_vars

\* C32: in every session every identifier in allWinners and in every tier
\* list is one of the participants of the session.
C32_WinnersAreParticipants ==
  \A sid \in DOMAIN sessions :
    /\ ToSet(AllWinners(sid)) \subseteq ToSet(participants[sid])
    /\ \A i \in 1..Len(TierLists(sid)) :
         ToSet(TierLists(sid)[i]) \subseteq ToSet(participants[sid])

\* a draw has recorded winners, in allWinners and in a tier list, for a
\* session with a single participant
C32_Witness ==
  \E sid \in DOMAIN sessions :
    /\ resp.op \in {"draw", "drawTier"}
    /\ resp.status = 200
    /\ AllWinners(sid) # <<>>
    /\ Len(participants[sid]) = 1
    /\ \E i \in 1..Len(TierLists(sid)) : TierLists(sid)[i] # <<>>

\* the chain has the commit block of the session, with the hash the session
\* holds, and its reveal block if its seed is revealed
Covered(c, session) ==
  /\ \E i \in 1..Len(c) :
       /\ IsType(c[i], "SESSION_CREATED")
       /\ c[i].data.sessionId = session.id
       /\ c[i].data.seedHash = session.seedHash
  /\ session.revealedSeed # Null =>
       \E i \in 1..Len(c) :
         /\ IsType(c[i], "SEED_REVEALED")
         /\ c[i].data.sessionId = session.id

\* C33: after every step, a restart of the process included, the chain has
\* for every session of the registry its SESSION_CREATED block with the
\* committed hash and, if its seed is revealed, its SEED_REVEALED block, and
\* the chain is not shorter than before the step.
C33_ChainCoversRegistry ==
  [][/\ \A sid \in DOMAIN sessions' : Covered(chain', sessions'[sid])
     /\ Len(chain') >= Len(chain)]_vars

\* C34: the steps that a selectWinners call has taken, on a k that is at
\* most the number of candidates, have hashed pairwise different inputs.
C34_StepInputsDistinct ==
  (sel.pc = "loop" /\ sel.k <= Len(sel.participants)) =>
    \A i1, i2 \in 0..(sel.i - 1) :
      i1 # i2 => HashInput(sel.randBase, i1) # HashInput(sel.randBase, i2)

\* C35: no step of a selectWinners call changes the list of candidates that
\* was passed in: it has the same elements in the same order after the call.
C35_SelectLeavesInput == [][sel'.participants = sel.participants]_vars

\* a call has returned after swapping elements of its working array
C35_Witness ==
  /\ sel.pc = "idle"
  /\ Len(sel.runs) > 0
  /\ sel.arr # sel.participants
  /\ Len(sel.arr) = Len(sel.participants)
====
